---- MODULE Spec2Model ----
(***************************************************************************)
(* A model of setup.py of mecab-python3: the README trimmer, the SWIG      *)
(* wrapper pruner, the mecabrc parser, the dictionary directory resolver   *)
(* and the build_ext wrapper.                                              *)
(*                                                                         *)
(* A Python str is a sequence of symbols.  A symbol is a one-character     *)
(* string, or a short word standing for a run of ordinary characters       *)
(* (neither white space, nor one of the characters the code tests for).    *)
(* Python's None is the record None; a value v that may be None is Some(v).*)
(***************************************************************************)
EXTENDS Integers, Sequences, FiniteSets, TLC

VARIABLES
    \* ---- read_and_trim_readme
    readmeFile,        \* the file README.md in SRCDIR
    long_description,  \* what read_and_trim_readme returned
    stderr,            \* what was written to sys.stderr
    exit_status,       \* the argument of sys.exit, or None
    readme_pc,
    \* ---- discard_swig_wrappers
    wrappers,          \* the file system: path of a .py file -> its state
    wrappers0,         \* the file system when discard_swig_wrappers was called
    sources,           \* ext.sources
    swig_exc,          \* the exception discard_swig_wrappers raised, or "none"
    swig_at,           \* the index in ext.sources at which it raised (0: it did not)
    swig_pc,
    \* ---- dicdir_from_mecabrc
    rcFile,            \* the file named rc_fname
    rc_result,
    rc_pc,
    \* ---- mecab_dictionary_contents
    environ,           \* os.environ, restricted to the three variables read
    rcfiles,           \* the file system: name of a mecabrc file -> the file
    dirs,              \* the file system: the absolute paths that are directories
    cwd,               \* the process working directory
    cwd_saved,         \* the local variable cwd (line 205)
    dicdir,            \* the local variable dicdir
    dic_result,        \* the returned pair, or None while running or when it raised
    dic_pc,
    \* ---- build_ext.build_extension
    USE_BUNDLED_LIBMECAB,
    tools,             \* outcomes of the external programs and files the locator uses
    ext,               \* the Extension object passed to build_extension
    trace,             \* the steps taken, in order
    build_pc

readmeVars == <<readmeFile, long_description, stderr, exit_status, readme_pc>>
swigVars   == <<wrappers, wrappers0, sources, swig_exc, swig_at, swig_pc>>
rcVars     == <<rcFile, rc_result, rc_pc>>
dicVars    == <<environ, rcfiles, dirs, cwd, cwd_saved, dicdir, dic_result, dic_pc>>
buildVars  == <<USE_BUNDLED_LIBMECAB, tools, ext, trace, build_pc>>
vars       == <<readmeVars, swigVars, rcVars, dicVars, buildVars>>

----------------------------------------------------------------------------
(* Python values *)

None == [some |-> FALSE]
Some(v) == [some |-> TRUE, val |-> v]

NL == "\n"
CR == "\r"
SP == " "

\* what str.strip() and str.lstrip() remove
Whitespace == {SP, NL, CR}

RECURSIVE LStrip(_)
LStrip(s) ==
    IF s # <<>> /\ Head(s) \in Whitespace THEN LStrip(Tail(s)) ELSE s

RECURSIVE RStrip(_)
RStrip(s) ==
    IF s # <<>> /\ s[Len(s)] \in Whitespace
    THEN RStrip(SubSeq(s, 1, Len(s) - 1))
    ELSE s

Strip(s) == RStrip(LStrip(s))

\* s[n:]
From(s, n) == SubSeq(s, n + 1, Len(s))

\* s[:n]
Upto(s, n) == SubSeq(s, 1, IF n < Len(s) THEN n ELSE Len(s))

\* s.startswith(p)
StartsWith(s, p) == Len(s) >= Len(p) /\ SubSeq(s, 1, Len(p)) = p

\* sep.join(parts)
RECURSIVE Join(_, _)
Join(parts, sep) ==
    IF parts = <<>> THEN <<>>
    ELSE IF Len(parts) = 1 THEN parts[1]
    ELSE parts[1] \o sep \o Join(Tail(parts), sep)

\* s.split(sep), sep one symbol: the pieces between the separators, empty ones kept
RECURSIVE SplitOn(_, _, _, _)
SplitOn(s, sep, k, cur) ==
    IF k > Len(s) THEN <<cur>>
    ELSE IF s[k] = sep THEN <<cur>> \o SplitOn(s, sep, k + 1, <<>>)
    ELSE SplitOn(s, sep, k + 1, Append(cur, s[k]))

\* s.splitlines(): split at "\n", "\r" and "\r\n"; no empty last line
RECURSIVE SplitLinesFrom(_, _, _)
SplitLinesFrom(s, k, cur) ==
    IF k > Len(s) THEN (IF cur = <<>> THEN <<>> ELSE <<cur>>)
    ELSE IF s[k] = CR /\ k < Len(s) /\ s[k + 1] = NL
         THEN <<cur>> \o SplitLinesFrom(s, k + 2, <<>>)
    ELSE IF s[k] \in {NL, CR}
         THEN <<cur>> \o SplitLinesFrom(s, k + 1, <<>>)
    ELSE SplitLinesFrom(s, k + 1, Append(cur, s[k]))

splitlines(s) == SplitLinesFrom(s, 1, <<>>)

\* all sequences over S of length at most n
SeqsUpTo(S, n) == UNION {[1..k -> S] : k \in 0..n}

----------------------------------------------------------------------------
(* Files: a file is absent, cannot be opened or read (OSError), holds bytes *)
(* that are not UTF-8, or holds the text data.                              *)

Absent      == [state |-> "absent", data |-> <<>>]
Unreadable  == [state |-> "unreadable", data |-> <<>>]
Undecodable == [state |-> "undecodable", data |-> <<>>]
File(d)     == [state |-> "ok", data |-> d]

----------------------------------------------------------------------------
(* read_file and read_and_trim_readme *)

MaxTextLen == 5

ReadmeChar == {"#", SP, "a", NL, CR}

ReadmeFiles ==
    {Absent, Unreadable, Undecodable} \cup {File(t) : t \in SeqsUpTo(ReadmeChar, MaxTextLen)}

\* read_file: "" when open or read fails; a UnicodeDecodeError of decode escapes
read_file(f) ==
    IF f.state \in {"absent", "unreadable"} THEN [raised |-> "none", text |-> <<>>]
    ELSE IF f.state = "undecodable" THEN [raised |-> "UnicodeDecodeError", text |-> <<>>]
    ELSE [raised |-> "none", text |-> f.data]

\* ScanReadme with "if line.strip():" for "if line:": a line of spaces counts as blank
RECURSIVE ScanReadme_strip(_, _, _)
ScanReadme_strip(readme, i, found_first_header) ==
    IF i > Len(readme) THEN 0
    ELSE IF found_first_header
         THEN (IF Strip(readme[i]) # <<>> THEN i
               ELSE ScanReadme_strip(readme, i + 1, TRUE))
    ELSE IF readme[i] # <<>> /\ readme[i][1] = "#"
         THEN ScanReadme_strip(readme, i + 1, TRUE)
    ELSE ScanReadme_strip(readme, i + 1, FALSE)

\* ScanReadme with "'#' in line" for "line[0] == '#'": a header may start anywhere
RECURSIVE ScanReadme_anywhere(_, _, _)
ScanReadme_anywhere(readme, i, found_first_header) ==
    IF i > Len(readme) THEN 0
    ELSE IF found_first_header
         THEN (IF readme[i] # <<>> THEN i
               ELSE ScanReadme_anywhere(readme, i + 1, TRUE))
    ELSE IF \E k \in 1..Len(readme[i]) : readme[i][k] = "#"
         THEN ScanReadme_anywhere(readme, i + 1, TRUE)
    ELSE ScanReadme_anywhere(readme, i + 1, FALSE)

\* The for loop of read_and_trim_readme from index i (1-based) on:
\* the index of the line at which it breaks, or 0 when it runs to its else clause.
RECURSIVE ScanReadme(_, _, _)
ScanReadme(readme, i, found_first_header) ==
    IF i > Len(readme) THEN 0
    ELSE IF found_first_header
         THEN (IF readme[i] # <<>> THEN i
               ELSE ScanReadme(readme, i + 1, TRUE))
    ELSE IF readme[i] # <<>> /\ readme[i][1] = "#"
         THEN ScanReadme(readme, i + 1, TRUE)
    ELSE ScanReadme(readme, i + 1, FALSE)

FailedToParse == <<"Failed to parse README.md\n">>

\* read_and_trim_readme on the file f: what it returns, writes and exits with
read_and_trim_readme(f) ==
    LET rd == read_file(f)
        readme == splitlines(rd.text)
        start == ScanReadme(readme, 1, FALSE)
    IN  IF rd.raised # "none"
        THEN [ret |-> None, err |-> <<>>, exit |-> None, raised |-> rd.raised]
        ELSE IF start = 0
        THEN [ret |-> None, err |-> FailedToParse, exit |-> Some(1), raised |-> "SystemExit"]
        ELSE [ret |-> Some(Join(SubSeq(readme, start, Len(readme)), <<NL>>)),
              err |-> <<>>, exit |-> None, raised |-> "none"]

ReadmeInit ==
    /\ readmeFile \in ReadmeFiles
    /\ long_description = None
    /\ stderr = <<>>
    /\ exit_status = None
    /\ readme_pc = "start"

ReadmeIdle ==
    /\ readmeFile = Absent
    /\ long_description = None
    /\ stderr = <<>>
    /\ exit_status = None
    /\ readme_pc = "off"

\* setup(long_description = read_and_trim_readme(), ...) returns a description
ReadmeReturn ==
    /\ readme_pc = "start"
    /\ LET r == read_and_trim_readme(readmeFile)
       IN  /\ r.raised = "none"
           /\ long_description' = r.ret
           /\ stderr' = stderr \o r.err
           /\ exit_status' = r.exit
    /\ readme_pc' = "returned"
    /\ UNCHANGED readmeFile
    /\ UNCHANGED <<swigVars, rcVars, dicVars, buildVars>>

\* read_and_trim_readme ends the process: sys.exit(1), or an uncaught exception
ReadmeExit ==
    /\ readme_pc = "start"
    /\ LET r == read_and_trim_readme(readmeFile)
       IN  /\ r.raised # "none"
           /\ long_description' = r.ret
           /\ stderr' = stderr \o r.err
           /\ exit_status' = r.exit
    /\ readme_pc' = "exited"
    /\ UNCHANGED readmeFile
    /\ UNCHANGED <<swigVars, rcVars, dicVars, buildVars>>

ReadmeNext == ReadmeReturn \/ ReadmeExit

----------------------------------------------------------------------------
(* discard_swig_wrappers *)

MaxSources == 2

\* SWIG_WRAPPER_MARKER (line 130), in two pieces so that a line can stop inside it
MarkerHead == "# This file was automatically generated"
MarkerTail == " by SWIG"
SWIG_WRAPPER_MARKER == <<MarkerHead, MarkerTail>>

SwigUrl == " (http://www.swig.org)."

\* Paths are sequences of symbols; "." is a symbol of its own.
DotI   == <<".", "i">>
DotPy  == <<".", "py">>
DotCpp == <<".", "cpp">>

SourcePaths == {<<"a">> \o DotI, <<"b">> \o DotI, <<"a">> \o DotCpp, <<"a">>}

WrapperPaths == {<<"a">> \o DotPy, <<"b">> \o DotPy}

\* Contents of a candidate .py file: empty, a bare newline, part of the marker,
\* the marker alone, the line SWIG writes, and hand-written files.
WrapperTexts ==
    { <<>>,
      <<NL>>,
      <<MarkerHead>>,
      <<MarkerHead, NL>>,
      SWIG_WRAPPER_MARKER,
      SWIG_WRAPPER_MARKER \o <<NL, "import x", NL>>,
      SWIG_WRAPPER_MARKER \o <<SwigUrl, NL, "import x", NL>>,
      <<"import x", NL>> \o SWIG_WRAPPER_MARKER \o <<NL>>,
      <<SP>> \o SWIG_WRAPPER_MARKER \o <<NL>> }

WrapperFiles == {Absent, Unreadable} \cup {File(t) : t \in WrapperTexts}

\* the positions of "." in p that os.path.splitext considers (not a leading one)
ExtDots(p) == {k \in 2..Len(p) : p[k] = "."}

\* os.path.splitext(p)
splitext(p) ==
    IF ExtDots(p) = {} THEN [base |-> p, ext |-> <<>>]
    ELSE LET k == CHOOSE d \in ExtDots(p) : \A e \in ExtDots(p) : e <= d
         IN  [base |-> SubSeq(p, 1, k - 1), ext |-> SubSeq(p, k, Len(p))]

\* the file at path p
Lookup(fs, p) == IF p \in DOMAIN fs THEN fs[p] ELSE Absent

\* next(fp) on a non-empty text: the first line, with its newline if it has one
RECURSIVE FirstLine(_)
FirstLine(text) ==
    IF text = <<>> THEN <<>>
    ELSE IF Head(text) = NL THEN <<NL>>
    ELSE <<Head(text)>> \o FirstLine(Tail(text))

\* IsSwigWrapper with a marker cut short
IsSwigWrapper_short(first) == StartsWith(first, <<MarkerHead>>)

\* line 138: the test that keeps swig_py_wrapper
IsSwigWrapper(first) == StartsWith(first, SWIG_WRAPPER_MARKER)

\* Lines 132-145, one iteration of the loop over ext.sources.
discard_one(fs, src) ==
    LET sp == splitext(src)
        swig_py_wrapper == sp.base \o DotPy
        f == Lookup(fs, swig_py_wrapper)
    IN  IF sp.ext # DotI THEN [fs |-> fs, raised |-> "none"]
        ELSE IF f.state # "ok" THEN [fs |-> fs, raised |-> "none"]
        ELSE IF f.data = <<>> THEN [fs |-> fs, raised |-> "StopIteration"]
        ELSE IF ~IsSwigWrapper(FirstLine(f.data)) THEN [fs |-> fs, raised |-> "none"]
        ELSE [fs |-> [fs EXCEPT ![swig_py_wrapper] = Absent], raised |-> "none"]

\* the loop of discard_swig_wrappers from index k on
RECURSIVE discard_from(_, _, _)
discard_from(fs, srcs, k) ==
    IF k > Len(srcs) THEN [fs |-> fs, raised |-> "none", at |-> 0]
    ELSE LET one == discard_one(fs, srcs[k])
         IN  IF one.raised # "none"
             THEN [fs |-> one.fs, raised |-> one.raised, at |-> k]
             ELSE discard_from(one.fs, srcs, k + 1)

discard_swig_wrappers(fs, srcs) == discard_from(fs, srcs, 1)

SwigInit ==
    /\ wrappers \in [WrapperPaths -> WrapperFiles]
    /\ wrappers0 = wrappers
    /\ sources \in SeqsUpTo(SourcePaths, MaxSources)
    /\ swig_exc = "none"
    /\ swig_at = 0
    /\ swig_pc = "start"

SwigIdle ==
    /\ wrappers = [p \in WrapperPaths |-> Absent]
    /\ wrappers0 = wrappers
    /\ sources = <<>>
    /\ swig_exc = "none"
    /\ swig_at = 0
    /\ swig_pc = "off"

\* discard_swig_wrappers(ext) runs to its end or to the exception it raises
DiscardSwigWrappers ==
    /\ swig_pc = "start"
    /\ LET r == discard_swig_wrappers(wrappers, sources)
       IN  /\ wrappers' = r.fs
           /\ swig_exc' = r.raised
           /\ swig_at' = r.at
    /\ swig_pc' = "done"
    /\ UNCHANGED <<wrappers0, sources>>
    /\ UNCHANGED <<readmeVars, rcVars, dicVars, buildVars>>

SwigNext == DiscardSwigWrappers

----------------------------------------------------------------------------
(* dicdir_from_mecabrc *)

MaxRcLines == 2

DICDIR == <<"d", "i", "c", "d", "i", "r">>

\* A line of a mecabrc is indent, key, separator, value, trailing space.
RcIndent == {<<>>, <<SP>>}
RcKey    == {<<>>, <<";">>, DICDIR, DICDIR \o <<"x">>, <<"x">>}
RcSep    == {<<>>, <<SP>>, <<"=">>, <<SP, "=", SP>>}
RcValue  == {<<>>, <<"/a">>, <<"/a", SP>>}

RcLines == {i \o k \o s \o v : i \in RcIndent, k \in RcKey, s \in RcSep, v \in RcValue}

RcFiles == {Absent, Unreadable} \cup {File(t) : t \in SeqsUpTo(RcLines, MaxRcLines)}

\* Lines 162-175: the loop over the lines of the file from line k on.
\* Iterating the file yields each line with its newline.
RECURSIVE rc_scan(_, _)
rc_scan(lines, k) ==
    IF k > Len(lines) THEN None
    ELSE LET line == Strip(lines[k] \o <<NL>>)
             rest == LStrip(From(line, 6))
             val  == IF rest # <<>> /\ rest[1] = "=" THEN LStrip(From(rest, 1)) ELSE rest
         IN  IF line = <<>> \/ line[1] = ";" THEN rc_scan(lines, k + 1)
             ELSE IF Upto(line, 6) # DICDIR THEN rc_scan(lines, k + 1)
             ELSE IF rest = <<>> THEN None
             ELSE IF val # <<>> THEN Some(val)
             ELSE rc_scan(lines, k + 1)

\* dicdir_from_mecabrc on the file f that rc_fname names
dicdir_from_mecabrc(f) ==
    IF f.state # "ok" THEN None ELSE rc_scan(f.data, 1)

RcInit ==
    /\ rcFile \in RcFiles
    /\ rc_result = None
    /\ rc_pc = "start"

RcIdle ==
    /\ rcFile = Absent
    /\ rc_result = None
    /\ rc_pc = "off"

DicdirFromMecabrc ==
    /\ rc_pc = "start"
    /\ rc_result' = dicdir_from_mecabrc(rcFile)
    /\ rc_pc' = "done"
    /\ UNCHANGED rcFile
    /\ UNCHANGED <<readmeVars, swigVars, dicVars, buildVars>>

RcNext == DicdirFromMecabrc

----------------------------------------------------------------------------
(* mecab_dictionary_contents *)

MaxDicpathEntries == 2

\* os.pathsep
pathsep == ":"

InitialCwd == <<"/", "w">>

\* the directories that may exist, and the strings that name them
DirD1 == <<"/", "d1">>
DirD2 == InitialCwd \o <<"/", "d2">>

PathStrings == {<<>>, DirD1, DirD1 \o <<"/">>, <<"d2">>}

\* the values of MECAB_DICPATH: one to MaxDicpathEntries entries joined by os.pathsep
DicpathStrings ==
    {Join(es, <<pathsep>>) :
        es \in SeqsUpTo({<<>>, DirD1, <<"d2">>}, MaxDicpathEntries) \ {<<>>}}

UserRc == <<"/", "home", "/", "mecabrc">>
LocalEtcRc == <<"/usr/local/etc/mecabrc">>
EtcRc == <<"/etc/mecabrc">>

\* line 196
FallbackRcs == <<LocalEtcRc, EtcRc>>

RcNames == {UserRc, LocalEtcRc, EtcRc}

DicRcFiles ==
    { Absent,
      File(<< <<";", SP, "c">>, DICDIR \o <<SP, "=", SP>> \o DirD1 >>),
      File(<< DICDIR \o <<SP, "d2">> >>) }

\* the names glob.glob("*") sees in a directory, and those it leaves out
Listing(d) ==
    IF d = DirD1 THEN {<<"a", ".", "dic">>, <<"b", ".", "dic">>, <<".", "hidden">>}
    ELSE {}

\* os.path.normpath, as far as the paths here need it: no trailing "/"
RECURSIVE normpath(_)
normpath(p) ==
    IF Len(p) > 1 /\ p[Len(p)] = "/" THEN normpath(SubSeq(p, 1, Len(p) - 1)) ELSE p

\* os.path.abspath(p)
abspath(p) ==
    IF p # <<>> /\ p[1] = "/" THEN normpath(p)
    ELSE IF p = <<>> THEN cwd
    ELSE normpath(cwd \o <<"/">> \o p)

\* os.path.isdir(p)
isdir(p) == abspath(p) \in dirs

\* "d and os.path.isdir(d)" then "dicdir = os.path.abspath(d)", d a str or None
DirOf(d) ==
    IF d.some /\ d.val # <<>> /\ isdir(d.val) THEN Some(abspath(d.val)) ELSE None

\* the loop of lines 187-190 and 196-200: the first of ds that DirOf takes
RECURSIVE FirstDirOf(_)
FirstDirOf(ds) ==
    IF ds = <<>> THEN None
    ELSE IF DirOf(ds[1]).some THEN DirOf(ds[1])
    ELSE FirstDirOf(Tail(ds))

SomeEach(ss) == [k \in 1..Len(ss) |-> Some(ss[k])]

\* lines 182-185
from_MECAB_DICDIR ==
    IF environ.MECAB_DICDIR.some THEN DirOf(environ.MECAB_DICDIR) ELSE None

\* from_MECAB_DICPATH without "dicdir is None and": MECAB_DICPATH overrides MECAB_DICDIR
from_MECAB_DICPATH_unguarded(cur) ==
    IF environ.MECAB_DICPATH.some
       /\ FirstDirOf(SomeEach(SplitOn(environ.MECAB_DICPATH.val, pathsep, 1, <<>>))).some
    THEN FirstDirOf(SomeEach(SplitOn(environ.MECAB_DICPATH.val, pathsep, 1, <<>>)))
    ELSE cur

\* lines 186-190
from_MECAB_DICPATH(cur) ==
    IF ~cur.some /\ environ.MECAB_DICPATH.some
    THEN FirstDirOf(SomeEach(SplitOn(environ.MECAB_DICPATH.val, pathsep, 1, <<>>)))
    ELSE cur

\* lines 191-194
from_MECABRC(cur) ==
    IF ~cur.some /\ environ.MECABRC.some
    THEN DirOf(dicdir_from_mecabrc(Lookup(rcfiles, environ.MECABRC.val)))
    ELSE cur

\* lines 195-200
from_fallback(cur) ==
    IF ~cur.some
    THEN FirstDirOf([k \in 1..Len(FallbackRcs) |->
                        dicdir_from_mecabrc(Lookup(rcfiles, FallbackRcs[k]))])
    ELSE cur

\* lines 181-200: the value of dicdir at line 201
resolve_dicdir == from_fallback(from_MECABRC(from_MECAB_DICPATH(from_MECAB_DICDIR)))

\* glob.glob("*") in the working directory: the names not starting with "."
glob_star == {n \in Listing(cwd) : n[1] # "."}

NoResult == [returned |-> FALSE]
Result(d, fs) == [returned |-> TRUE, dicdir |-> d, dicfiles |-> fs]

DicInit ==
    /\ environ \in [MECAB_DICDIR : {None} \cup {Some(x) : x \in PathStrings},
                    MECAB_DICPATH : {None} \cup {Some(x) : x \in DicpathStrings},
                    MECABRC : {None, Some(UserRc)}]
    /\ rcfiles \in [RcNames -> DicRcFiles]
    /\ dirs \in {ds \cup {InitialCwd} : ds \in SUBSET {DirD1, DirD2}}
    /\ cwd = InitialCwd
    /\ cwd_saved = None
    /\ dicdir = None
    /\ dic_result = NoResult
    /\ dic_pc = "start"

DicIdle ==
    /\ environ = [MECAB_DICDIR |-> None, MECAB_DICPATH |-> None, MECABRC |-> None]
    /\ rcfiles = [n \in RcNames |-> Absent]
    /\ dirs = {InitialCwd}
    /\ cwd = InitialCwd
    /\ cwd_saved = None
    /\ dicdir = None
    /\ dic_result = NoResult
    /\ dic_pc = "off"

\* lines 181-202: no source resolves, return None, []
DicReturnNone ==
    /\ dic_pc = "start"
    /\ ~resolve_dicdir.some
    /\ dic_result' = Result(None, {})
    /\ dic_pc' = "returned"
    /\ UNCHANGED <<environ, rcfiles, dirs, cwd, cwd_saved, dicdir>>
    /\ UNCHANGED <<readmeVars, swigVars, rcVars, buildVars>>

\* lines 181-205: a source resolves; cwd = os.getcwd()
DicResolve ==
    /\ dic_pc = "start"
    /\ resolve_dicdir.some
    /\ dicdir' = resolve_dicdir
    /\ cwd_saved' = Some(cwd)
    /\ dic_pc' = "chdir"
    /\ UNCHANGED <<environ, rcfiles, dirs, cwd, dic_result>>
    /\ UNCHANGED <<readmeVars, swigVars, rcVars, buildVars>>

\* line 206: os.chdir(dicdir)
DicChdir ==
    /\ dic_pc = "chdir"
    /\ cwd' = dicdir.val
    /\ dic_pc' = "glob"
    /\ UNCHANGED <<environ, rcfiles, dirs, cwd_saved, dicdir, dic_result>>
    /\ UNCHANGED <<readmeVars, swigVars, rcVars, buildVars>>

\* line 206: os.chdir(dicdir) raises (the directory may not be entered)
DicChdirRaises ==
    /\ dic_pc = "chdir"
    /\ dic_pc' = "raised"
    /\ UNCHANGED <<environ, rcfiles, dirs, cwd, cwd_saved, dicdir, dic_result>>
    /\ UNCHANGED <<readmeVars, swigVars, rcVars, buildVars>>

\* lines 207-209: dicfiles = glob.glob("*"); os.chdir(cwd); return dicdir, dicfiles
DicGlobRestoreReturn ==
    /\ dic_pc = "glob"
    /\ dic_result' = Result(dicdir, glob_star)
    /\ cwd' = cwd_saved.val
    /\ dic_pc' = "returned"
    /\ UNCHANGED <<environ, rcfiles, dirs, cwd_saved, dicdir>>
    /\ UNCHANGED <<readmeVars, swigVars, rcVars, buildVars>>

\* line 207: an exception leaves glob.glob("*") (glob swallows OSError, but not
\* KeyboardInterrupt, MemoryError or a decoding error); line 208 is not reached
DicGlobRaises ==
    /\ dic_pc = "glob"
    /\ dic_pc' = "raised"
    /\ UNCHANGED <<environ, rcfiles, dirs, cwd, cwd_saved, dicdir, dic_result>>
    /\ UNCHANGED <<readmeVars, swigVars, rcVars, buildVars>>

DicNext ==
    \/ DicReturnNone
    \/ DicResolve
    \/ DicChdir
    \/ DicChdirRaises
    \/ DicGlobRestoreReturn
    \/ DicGlobRaises

----------------------------------------------------------------------------
(* maybe_build_libmecab_and_adjust_flags and build_ext.build_extension *)

MECAB_EXT_NAME == "MeCab._MeCab"

ExtNames == {MECAB_EXT_NAME, "other._ext"}

\* s.split(): the runs of non-white-space symbols
RECURSIVE SplitWsFrom(_, _, _)
SplitWsFrom(s, k, cur) ==
    IF k > Len(s) THEN (IF cur = <<>> THEN <<>> ELSE <<cur>>)
    ELSE IF s[k] \in Whitespace
         THEN (IF cur = <<>> THEN <<>> ELSE <<cur>>) \o SplitWsFrom(s, k + 1, <<>>)
    ELSE SplitWsFrom(s, k + 1, Append(cur, s[k]))

split(s) == SplitWsFrom(s, 1, <<>>)

ConfigArgs == {"--inc-dir", "--libs-only-L", "--libs-only-l"}

\* what mecab-config prints for each argument when it succeeds
ConfigOutput(arg) ==
    IF arg = "--inc-dir" THEN <<"/usr/include", NL>>
    ELSE IF arg = "--libs-only-L" THEN <<"/usr/lib", NL>>
    ELSE <<"-l", "mecab", SP, "-l", "stdc++", NL>>

\* mecab-config is not installed (OSError), or each invocation exits 0 or not
ConfigStates == {[installed |-> FALSE, exit0 |-> [a \in ConfigArgs |-> FALSE]]}
                \cup {[installed |-> TRUE, exit0 |-> e] : e \in [ConfigArgs -> BOOLEAN]}

\* build/libmecab/mecab/Makefile, as lines of symbols
MakefileTexts ==
    { << <<"CC", SP, "=", SP, "gcc", NL>> >>,
      << <<"CC", SP, "=", SP, "gcc", NL>>,
         <<"LIBS", SP, "=", SP, "-l", "iconv", SP, "-L", "/opt", SP, "-l", "stdc++", NL>>,
         <<"LIBS", SP, "=", SP, "-l", "never", NL>> >>,
      << <<"LIBS", "=", "-l", "iconv", NL>> >> }

MakefileStates == {Absent, Unreadable} \cup {File(t) : t \in MakefileTexts}

BundledSrc == <<"SRCDIR", "/", "build/libmecab/mecab/src">>

\* mecab_config that does not check the exit status (no check_output)
mecab_config_unchecked(arg) ==
    IF ~tools.config.installed THEN [raised |-> "OSError", out |-> <<>>]
    ELSE [raised |-> "none",
          out |-> IF tools.config.exit0[arg] THEN split(ConfigOutput(arg)) ELSE <<>>]

\* lines 95-100: mecab_config(arg)
mecab_config(arg) ==
    IF ~tools.config.installed THEN [raised |-> "OSError", out |-> <<>>]
    ELSE IF ~tools.config.exit0[arg] THEN [raised |-> "CalledProcessError", out |-> <<>>]
    ELSE [raised |-> "none", out |-> split(ConfigOutput(arg))]

\* lines 80-82: the names after "-l" among the words after the first "="
RECURSIVE LibsOf(_)
LibsOf(words) ==
    IF words = <<>> THEN <<>>
    ELSE IF Upto(words[1], 1) = <<"-l">>
         THEN <<From(words[1], 1)>> \o LibsOf(Tail(words))
    ELSE LibsOf(Tail(words))

\* line.partition("=")[2]
AfterEq(line) ==
    LET eqs == {k \in 1..Len(line) : line[k] = "="}
    IN  IF eqs = {} THEN <<>>
        ELSE From(line, CHOOSE k \in eqs : \A j \in eqs : k <= j)

\* lines 78-83: the loop over the lines of the Makefile, up to the first LIBS = line
RECURSIVE makefile_libs(_)
makefile_libs(lines) ==
    IF lines = <<>> THEN <<>>
    ELSE IF StartsWith(lines[1], <<"LIBS", SP, "=">>)
         THEN LibsOf(split(AfterEq(lines[1])))
    ELSE makefile_libs(Tail(lines))

\* lines 61-104: the three flag lists, or the exception raised on the way
locate_flags ==
    IF USE_BUNDLED_LIBMECAB
    THEN IF ~tools.script_ok
         THEN [raised |-> "CalledProcessError"]
         ELSE IF tools.makefile.state # "ok"
         THEN [raised |-> "OSError"]
         ELSE [raised |-> "none",
               inc_dir |-> <<BundledSrc>>,
               lib_dirs |-> <<BundledSrc>>,
               libs |-> <<(<<"mecab">>)>> \o makefile_libs(tools.makefile.data)]
    ELSE LET i == mecab_config("--inc-dir")
             L == mecab_config("--libs-only-L")
             l == mecab_config("--libs-only-l")
         IN  IF i.raised # "none" THEN [raised |-> i.raised]
             ELSE IF L.raised # "none" THEN [raised |-> L.raised]
             ELSE IF l.raised # "none" THEN [raised |-> l.raised]
             ELSE [raised |-> "none", inc_dir |-> i.out, lib_dirs |-> L.out, libs |-> l.out]

\* lines 106-111
swig_opts_for(inc_dir) ==
    <<"-O", "-builtin", "-c++">>
    \o (IF tools.py_major >= 3 THEN <<"-py3">> ELSE <<>>)
    \o [k \in 1..Len(inc_dir) |-> <<"-I">> \o inc_dir[k]]

\* lines 113-117: the extension with the flags attached
adjusted(e, flags) ==
    [e EXCEPT !.include_dirs = flags.inc_dir,
              !.library_dirs = flags.lib_dirs,
              !.libraries = flags.libs,
              !.swig_opts = swig_opts_for(flags.inc_dir),
              !.extra_compile_args = <<"-Wno-unused-variable">>]

\* Extension(name, sources): every other list starts empty
Extension(name, srcs) ==
    [name |-> name, sources |-> srcs, include_dirs |-> <<>>, library_dirs |-> <<>>,
     libraries |-> <<>>, swig_opts |-> <<>>, extra_compile_args |-> <<>>]

BuildSources == {<< <<"a">> \o DotCpp >>, << <<"a">> \o DotI >>}

BuildWrapperFiles ==
    {Absent, File(<<>>), File(SWIG_WRAPPER_MARKER \o <<SwigUrl, NL, "import x", NL>>)}

\* is_mecab_ext without the test of the name
is_mecab_ext_any(e) == TRUE

\* line 150: the extension is the one to adjust
is_mecab_ext(e) == e.name = MECAB_EXT_NAME

BuildInit ==
    /\ USE_BUNDLED_LIBMECAB \in BOOLEAN
    /\ tools \in [config : ConfigStates, script_ok : BOOLEAN,
                  makefile : MakefileStates, py_major : {2, 3}]
    /\ ext \in {Extension(n, s) : n \in ExtNames, s \in BuildSources}
    /\ trace = <<>>
    /\ build_pc = "idle"
    /\ wrappers \in [WrapperPaths -> BuildWrapperFiles]
    /\ wrappers0 = wrappers
    /\ sources = ext.sources
    /\ swig_exc = "none"
    /\ swig_at = 0
    /\ swig_pc = "off"

BuildIdle ==
    /\ USE_BUNDLED_LIBMECAB = FALSE
    /\ tools = [config |-> [installed |-> FALSE, exit0 |-> [a \in ConfigArgs |-> FALSE]],
                script_ok |-> FALSE, makefile |-> Absent, py_major |-> 3]
    /\ ext = Extension(MECAB_EXT_NAME, <<>>)
    /\ trace = <<>>
    /\ build_pc = "off"

\* a command other than build_ext runs: build_extension is never called
NoBuildExt ==
    /\ build_pc = "idle"
    /\ build_pc' = "done"
    /\ trace' = Append(trace, "no_build_ext")
    /\ UNCHANGED <<USE_BUNDLED_LIBMECAB, tools, ext, swigVars>>
    /\ UNCHANGED <<readmeVars, rcVars, dicVars>>

\* line 149: build_extension(self, ext) is called
CallBuildExtension ==
    /\ build_pc = "idle"
    /\ build_pc' = IF is_mecab_ext(ext) THEN "adjust" ELSE "build"
    /\ trace' = Append(trace, "build_extension")
    /\ UNCHANGED <<USE_BUNDLED_LIBMECAB, tools, ext, swigVars>>
    /\ UNCHANGED <<readmeVars, rcVars, dicVars>>

\* line 151: maybe_build_libmecab_and_adjust_flags(ext) returns
AdjustFlags ==
    /\ build_pc = "adjust"
    /\ locate_flags.raised = "none"
    /\ ext' = adjusted(ext, locate_flags)
    /\ trace' = Append(trace, "locator")
    /\ build_pc' = "build"
    /\ UNCHANGED <<USE_BUNDLED_LIBMECAB, tools, swigVars>>
    /\ UNCHANGED <<readmeVars, rcVars, dicVars>>

\* line 151: maybe_build_libmecab_and_adjust_flags(ext) raises
AdjustFlagsRaises ==
    /\ build_pc = "adjust"
    /\ locate_flags.raised # "none"
    /\ trace' = Append(trace, "locator_raised")
    /\ build_pc' = "raised"
    /\ UNCHANGED <<USE_BUNDLED_LIBMECAB, tools, ext, swigVars>>
    /\ UNCHANGED <<readmeVars, rcVars, dicVars>>

\* line 152: _build_ext.build_extension(self, ext) returns
UnderlyingBuild ==
    /\ build_pc = "build"
    /\ trace' = Append(trace, "underlying_build")
    /\ build_pc' = IF is_mecab_ext(ext) THEN "prune" ELSE "done"
    /\ UNCHANGED <<USE_BUNDLED_LIBMECAB, tools, ext, swigVars>>
    /\ UNCHANGED <<readmeVars, rcVars, dicVars>>

\* line 152: _build_ext.build_extension(self, ext) raises (a compile or link error)
UnderlyingBuildRaises ==
    /\ build_pc = "build"
    /\ trace' = Append(trace, "underlying_raised")
    /\ build_pc' = "raised"
    /\ UNCHANGED <<USE_BUNDLED_LIBMECAB, tools, ext, swigVars>>
    /\ UNCHANGED <<readmeVars, rcVars, dicVars>>

\* line 154: discard_swig_wrappers(ext)
Prune ==
    /\ build_pc = "prune"
    /\ LET r == discard_swig_wrappers(wrappers, ext.sources)
       IN  /\ wrappers' = r.fs
           /\ swig_exc' = r.raised
           /\ swig_at' = r.at
           /\ build_pc' = IF r.raised = "none" THEN "done" ELSE "raised"
    /\ trace' = Append(trace, "pruner")
    /\ UNCHANGED <<USE_BUNDLED_LIBMECAB, tools, ext, wrappers0, sources, swig_pc>>
    /\ UNCHANGED <<readmeVars, rcVars, dicVars>>

BuildNext ==
    \/ NoBuildExt
    \/ CallBuildExtension
    \/ AdjustFlags
    \/ AdjustFlagsRaises
    \/ UnderlyingBuild
    \/ UnderlyingBuildRaises
    \/ Prune

----------------------------------------------------------------------------------------------------------------------------------------------
(* The specifications: one per function, the other functions' state at rest *)

InitReadme == ReadmeInit /\ SwigIdle /\ RcIdle /\ DicIdle /\ BuildIdle
SpecReadme == InitReadme /\ [][ReadmeNext]_vars

InitSwig == SwigInit /\ ReadmeIdle /\ RcIdle /\ DicIdle /\ BuildIdle
SpecSwig == InitSwig /\ [][SwigNext]_vars

InitRc == RcInit /\ ReadmeIdle /\ SwigIdle /\ DicIdle /\ BuildIdle
SpecRc == InitRc /\ [][RcNext]_vars

InitDic == DicInit /\ ReadmeIdle /\ SwigIdle /\ RcIdle /\ BuildIdle
SpecDic == InitDic /\ [][DicNext]_vars

InitBuild == BuildInit /\ ReadmeIdle /\ RcIdle /\ DicIdle
SpecBuild == InitBuild /\ [][BuildNext]_vars

----------------------------------------------------------------------------
(* Properties of read_and_trim_readme (checked under SpecReadme) *)

\* the least element of a non-empty set of numbers
Least(S) == CHOOSE x \in S : \A y \in S : x <= y

ReadmeLines == splitlines(readmeFile.data)

\* the lines whose first character is "#"
HeaderLines == {i \in 1..Len(ReadmeLines) : ReadmeLines[i] # <<>> /\ ReadmeLines[i][1] = "#"}

\* the non-blank lines after the first header; as in the source, a blank line is
\* a line with no character at all (a line of spaces is not blank)
BodyLines ==
    IF HeaderLines = {} THEN {}
    ELSE {j \in 1..Len(ReadmeLines) : j > Least(HeaderLines) /\ ReadmeLines[j] # <<>>}

\* C2: when the text has a line starting with "#" and a non-blank line after it,
\* read_and_trim_readme returns the lines from the first non-blank line after the
\* first such header to the end, joined with newlines.
C2_TrimmedFromFirstBody ==
    (readme_pc # "start" /\ readmeFile.state = "ok" /\ BodyLines # {})
    => /\ readme_pc = "returned"
       /\ long_description =
              Some(Join(SubSeq(ReadmeLines, Least(BodyLines), Len(ReadmeLines)), <<NL>>))

\* a return where a blank line was skipped and a second header line was kept
C2_Witness ==
    /\ readme_pc = "returned"
    /\ Cardinality(HeaderLines) >= 2
    /\ Least(BodyLines) > Least(HeaderLines) + 1
    /\ long_description.val = <<"#">>

\* C3: when no line of the text starts with "#", read_and_trim_readme returns no
\* description: it writes a diagnostic to stderr and exits with a non-zero status.
C3_NoHeaderIsFatal ==
    (readme_pc # "start" /\ readmeFile.state = "ok" /\ HeaderLines = {})
    => /\ readme_pc = "exited"
       /\ long_description = None
       /\ stderr # <<>>
       /\ exit_status.some
       /\ exit_status.val # 0

\* an exit on a text that holds a "#", but not at the start of a line
C3_Witness ==
    /\ readme_pc = "exited"
    /\ readmeFile.state = "ok"
    /\ HeaderLines = {}
    /\ \E k \in 1..Len(readmeFile.data) : readmeFile.data[k] = "#"
    /\ exit_status = Some(1)

\* C4: an absent or unreadable README.md is treated as an empty document and
\* does not end the run in the fatal exit.
C4_AbsentReadmeNotFatal ==
    readmeFile.state \in {"absent", "unreadable"} => readme_pc # "exited"

----------------------------------------------------------------------------
(* Properties of discard_swig_wrappers (checked under SpecSwig) *)

\* a line without its newline
LineText(first) ==
    IF first # <<>> /\ first[Len(first)] = NL THEN SubSeq(first, 1, Len(first) - 1) ELSE first

\* the first line of the file f, if it has one
FirstLineText(f) == LineText(FirstLine(f.data))

\* p is the .py sibling of a .i source
SiblingOfDotI(p) ==
    \E k \in 1..Len(sources) :
        /\ Len(sources[k]) > 2
        /\ SubSeq(sources[k], Len(sources[k]) - 1, Len(sources[k])) = DotI
        /\ p = SubSeq(sources[k], 1, Len(sources[k]) - 2) \o DotPy

\* C5 as stated: a file whose first line is not exactly the marker still exists
\* unchanged after discard_swig_wrappers.
C5_ExactMarkerOnly ==
    swig_pc = "done"
    => \A p \in WrapperPaths :
          (wrappers0[p].state = "ok" /\ FirstLineText(wrappers0[p]) # SWIG_WRAPPER_MARKER)
          => wrappers[p] = wrappers0[p]

\* C5, amended: discard_swig_wrappers changes a file only by deleting it, and only
\* when it is the .py sibling of a .i source and its first line begins with the
\* marker; every other file is as it was.
C5_MarkerPrefixOnly ==
    swig_pc = "done"
    => \A p \in WrapperPaths :
          wrappers[p] # wrappers0[p]
          => /\ wrappers[p] = Absent
             /\ wrappers0[p].state = "ok"
             /\ wrappers0[p].data # <<>>
             /\ StartsWith(FirstLineText(wrappers0[p]), SWIG_WRAPPER_MARKER)
             /\ SiblingOfDotI(p)

\* a deleted file whose first line goes on after the marker, beside one that was kept
C5_Witness ==
    /\ swig_pc = "done"
    /\ \E p \in WrapperPaths :
          /\ wrappers[p] = Absent
          /\ wrappers0[p].state = "ok"
          /\ Len(FirstLineText(wrappers0[p])) > Len(SWIG_WRAPPER_MARKER)
    /\ \E p \in WrapperPaths :
          /\ SiblingOfDotI(p)
          /\ wrappers[p].state = "ok"
          /\ wrappers[p].data # <<>>

\* a file that discard_swig_wrappers is to leave alone: missing, unreadable,
\* empty, or with a first line that does not begin with the marker
Unrecognized(f) ==
    \/ f.state # "ok"
    \/ f.data = <<>>
    \/ ~StartsWith(FirstLineText(f), SWIG_WRAPPER_MARKER)

\* C6: for every .i source whose candidate wrapper is missing, unreadable, empty
\* or unrecognized, discard_swig_wrappers leaves the file as it was and raises
\* no error at that source.
C6_UnrecognizedIsLeftQuietly ==
    swig_pc = "done"
    => \A k \in 1..Len(sources) :
          LET w == splitext(sources[k]).base \o DotPy
          IN  (splitext(sources[k]).ext = DotI /\ Unrecognized(Lookup(wrappers0, w)))
              => /\ swig_at # k
                 /\ Lookup(wrappers, w) = Lookup(wrappers0, w)

----------------------------------------------------------------------------
(* Properties of dicdir_from_mecabrc (checked under SpecRc) *)

\* the key of a stripped line: what stands before the first white space or "="
RECURSIVE KeyOf(_)
KeyOf(line) ==
    IF line = <<>> \/ line[1] \in Whitespace \cup {"="} THEN <<>>
    ELSE <<line[1]>> \o KeyOf(Tail(line))

\* the value of a stripped line: what follows the key and its separator, trimmed
ValueOf(line) ==
    LET rest == LStrip(From(line, Len(KeyOf(line))))
    IN  Strip(IF rest # <<>> /\ rest[1] = "=" THEN From(rest, 1) ELSE rest)

\* the lines that are neither blank nor comments and whose key is exactly dicdir
DicdirLines ==
    {k \in 1..Len(rcFile.data) :
        LET line == Strip(rcFile.data[k])
        IN  line # <<>> /\ line[1] # ";" /\ KeyOf(line) = DICDIR}

\* the value of the first dicdir line, if it has one
FirstDicdirLine ==
    IF DicdirLines = {} THEN None
    ELSE LET v == ValueOf(Strip(rcFile.data[Least(DicdirLines)]))
         IN  IF v = <<>> THEN None ELSE Some(v)

\* the value of the first dicdir line that has a value
FirstDicdirValue ==
    LET valued == {k \in DicdirLines : ValueOf(Strip(rcFile.data[k])) # <<>>}
    IN  IF valued = {} THEN None
        ELSE Some(ValueOf(Strip(rcFile.data[Least(valued)])))

\* C7: dicdir_from_mecabrc returns the trimmed value of the first line, blank
\* lines and ";" lines aside, whose key is exactly dicdir (read either as the
\* first such line or as the first such line with a value); a line with any
\* other key contributes nothing, and a file that cannot be opened gives None.
C7_ExactDicdirKey ==
    rc_pc = "done"
    => IF rcFile.state # "ok" THEN rc_result = None
       ELSE rc_result \in {FirstDicdirLine, FirstDicdirValue}

----------------------------------------------------------------------------
(* Properties of mecab_dictionary_contents (checked under SpecDic) *)

\* what dicdir_from_mecabrc offers from the file called name
RcCandidate(name) ==
    LET v == dicdir_from_mecabrc(Lookup(rcfiles, name))
    IN  IF v.some THEN <<v.val>> ELSE <<>>

\* the strings the sources offer, in the order of precedence
Candidates ==
    (IF environ.MECAB_DICDIR.some THEN <<environ.MECAB_DICDIR.val>> ELSE <<>>)
    \o (IF environ.MECAB_DICPATH.some
        THEN SplitOn(environ.MECAB_DICPATH.val, pathsep, 1, <<>>) ELSE <<>>)
    \o (IF environ.MECABRC.some THEN RcCandidate(environ.MECABRC.val) ELSE <<>>)
    \o RcCandidate(LocalEtcRc)
    \o RcCandidate(EtcRc)

\* the absolute path a string named when mecab_dictionary_contents was called
AbsAtCall(c) ==
    IF c[1] = "/" THEN normpath(c) ELSE normpath(InitialCwd \o <<"/">> \o c)

ExistingDir(c) == c # <<>> /\ AbsAtCall(c) \in dirs

\* the directory of the first candidate that is an existing directory
Expected ==
    LET hits == {k \in 1..Len(Candidates) : ExistingDir(Candidates[k])}
    IN  IF hits = {} THEN None ELSE Some(AbsAtCall(Candidates[Least(hits)]))

\* C1: the directory is that of the highest-priority source that resolves
\* (MECAB_DICDIR, the entries of MECAB_DICPATH in order, the dicdir of the file
\* MECABRC names, of /usr/local/etc/mecabrc, of /etc/mecabrc); when none resolves
\* the result is (None, no files) and nothing is raised.
C1_Precedence ==
    /\ dic_pc = "returned"
       => /\ dic_result.dicdir = Expected
          /\ ~Expected.some => dic_result.dicfiles = {}
    /\ dic_pc \in {"chdir", "glob", "raised"}
       => /\ Expected.some
          /\ dicdir = Expected

\* MECAB_DICDIR and every entry of MECAB_DICPATH fail, the file MECABRC names
\* gives the directory, and it is returned with the fallback files passed over
C1_Witness ==
    /\ dic_pc = "returned"
    /\ environ.MECAB_DICDIR = Some(DirD1)
    /\ environ.MECAB_DICPATH = Some(DirD1 \o <<pathsep>>)
    /\ environ.MECABRC.some
    /\ DirD1 \notin dirs
    /\ dicdir_from_mecabrc(rcfiles[EtcRc]).some
    /\ dic_result.dicdir = Some(DirD2)

\* C8: after mecab_dictionary_contents has returned or raised, the working
\* directory is the one at the call.
C8_CwdRestored ==
    dic_pc \in {"returned", "raised"} => cwd = InitialCwd

----------------------------------------------------------------------------
(* Properties of build_extension (checked under SpecBuild) *)

\* the locator cannot determine one of the three flag lists
LocatorFails ==
    IF USE_BUNDLED_LIBMECAB
    THEN ~tools.script_ok \/ tools.makefile.state \in {"absent", "unreadable"}
    ELSE ~tools.config.installed \/ \E a \in ConfigArgs : ~tools.config.exit0[a]

Occurs(e) == \E k \in 1..Len(trace) : trace[k] = e

\* every e2 in the trace has an e1 before it
Precedes(e1, e2) ==
    \A k \in 1..Len(trace) : trace[k] = e2 => \E j \in 1..(k - 1) : trace[j] = e1

\* C9: when the locator cannot determine one of the flag lists for MeCab._MeCab,
\* maybe_build_libmecab_and_adjust_flags raises, the extension's flags stay as
\* they were, and _build_ext.build_extension is not reached.
C9_LocatorFailureStopsBuild ==
    (ext.name = MECAB_EXT_NAME /\ LocatorFails /\ Occurs("build_extension"))
    => /\ build_pc \in {"adjust", "raised"}
       /\ build_pc = "raised" => trace = <<"build_extension", "locator_raised">>
       /\ ext = Extension(ext.name, ext.sources)
       /\ ~Occurs("underlying_build")
       /\ ~Occurs("underlying_raised")

\* mecab-config answers twice and exits non-zero the third time: the call raised
C9_Witness ==
    /\ build_pc = "raised"
    /\ ext.name = MECAB_EXT_NAME
    /\ ~USE_BUNDLED_LIBMECAB
    /\ tools.config.installed
    /\ tools.config.exit0["--inc-dir"]
    /\ tools.config.exit0["--libs-only-L"]
    /\ ~tools.config.exit0["--libs-only-l"]
    /\ trace = <<"build_extension", "locator_raised">>

\* C10: for MeCab._MeCab the locator completes before the underlying build step
\* and the pruner runs only after that step has completed; the locator runs only
\* within a build_extension call; for any other extension neither runs and the
\* extension and the files are as they were.
C10_StepOrder ==
    /\ Precedes("build_extension", "locator")
    /\ Precedes("build_extension", "locator_raised")
    /\ Precedes("underlying_build", "pruner")
    /\ ext.name = MECAB_EXT_NAME
       => /\ Precedes("locator", "underlying_build")
          /\ Precedes("locator", "underlying_raised")
          /\ (build_pc = "done" /\ Occurs("build_extension"))
             => trace = <<"build_extension", "locator", "underlying_build", "pruner">>
    /\ ext.name # MECAB_EXT_NAME
       => /\ ~Occurs("locator")
          /\ ~Occurs("locator_raised")
          /\ ~Occurs("pruner")
          /\ ext = Extension(ext.name, ext.sources)
          /\ wrappers = wrappers0
          /\ (build_pc = "done" /\ Occurs("build_extension"))
             => trace = <<"build_extension", "underlying_build">>

\* the three steps have run in order for MeCab._MeCab, with the flags attached
\* and a wrapper discarded
C10_Witness ==
    /\ build_pc = "done"
    /\ ext.name = MECAB_EXT_NAME
    /\ trace = <<"build_extension", "locator", "underlying_build", "pruner">>
    /\ ext.extra_compile_args = <<"-Wno-unused-variable">>
    /\ wrappers # wrappers0

====
